---- MODULE Spec2Model ----
(***************************************************************************)
(* Perf Flame: the DevTools panel (src/src/my-panel.tsx) and the React     *)
(* Native bridge (src/react-native.ts).                                    *)
(*                                                                         *)
(* Units: every duration (commit duration, effect durations, the frame     *)
(* budget) is an integer number of tenths of a millisecond, so the budget  *)
(* presets 16.7 ms and 8.3 ms are 167 and 83.  fps values and stall totals *)
(* are the integers the bridge sends (Math.round).                         *)
(*                                                                         *)
(* An optional JavaScript value (T | null | undefined) is a sequence of    *)
(* length at most one: None or Some(v).                                    *)
(***************************************************************************)
EXTENDS Integers, Sequences, FiniteSets, TLC

None == <<>>
Some(v) == <<v>>

\* x ?? d
Coalesce(x, d) == IF x = None THEN d ELSE x[1]

\* x || 0 for an optional number: null, undefined and 0 all give 0
OrZero(x) == IF x = None THEN 0 ELSE x[1]

(***************************************************************************)
(* Loosely typed JSON values of a profile export.  A value carries a tag:  *)
(* "undefined", "null", "array" (with its items) or "other" (a number, a   *)
(* string, a plain object: anything that is neither nullish nor an array,  *)
(* and whose element 0, if it has one, carries no commitData).             *)
(***************************************************************************)
JUndefined == [tag |-> "undefined", items |-> <<>>]
JNull == [tag |-> "null", items |-> <<>>]
JOther == [tag |-> "other", items |-> <<>>]
JArray(s) == [tag |-> "array", items |-> s]

Nullish(v) == v.tag \in {"undefined", "null"}

\* a root object {commitData}, and the root that is null / a hole
RootObj(cd) == [tag |-> "object", commitData |-> cd]
RootNull == [tag |-> "null", commitData |-> JUndefined]
RootUndefined == [tag |-> "undefined", commitData |-> JUndefined]

\* type Commit, type ProfilerJSON
Commit(d, e, p, u) ==
    [duration |-> d, effectDuration |-> e, passiveEffectDuration |-> p, updaters |-> u]
Updater(n) == [displayName |-> n]
ProfilerJSON(roots, start, end) ==
    [dataForRoots |-> roots, profilingStartTime |-> start, profilingEndTime |-> end]

(***************************************************************************)
(* parseCommits                                                            *)
(***************************************************************************)
parseCommitsAnyRoot(json) ==
    LET dfr == IF json = None THEN JUndefined ELSE json[1].dataForRoots
        roots == IF Nullish(dfr) THEN JArray(<<>>) ELSE dfr
        n == IF roots.tag = "array" THEN Len(roots.items) ELSE 0
        first == IF n >= 1 THEN roots.items[n] ELSE RootUndefined
        cd == IF Nullish(first) THEN JUndefined ELSE first.commitData
        commits == IF Nullish(cd) THEN JArray(<<>>) ELSE cd
    IN  IF commits.tag = "array" THEN commits.items ELSE <<>>

parseCommits(json) ==
    LET dfr == IF json = None THEN JUndefined ELSE json[1].dataForRoots   \* json?.dataForRoots
        roots == IF Nullish(dfr) THEN JArray(<<>>) ELSE dfr               \* ?? []
        first == IF roots.tag = "array" /\ Len(roots.items) >= 1          \* roots[0]
                 THEN roots.items[1] ELSE RootUndefined
        cd == IF Nullish(first) THEN JUndefined ELSE first.commitData     \* first?.commitData
        commits == IF Nullish(cd) THEN JArray(<<>>) ELSE cd               \* ?? []
    IN  IF commits.tag = "array" THEN commits.items ELSE <<>>             \* Array.isArray

(***************************************************************************)
(* Panel.stats: the loop over the commits                                  *)
(***************************************************************************)
Budget(h) == IF h = 60 THEN 167 ELSE 83

\* if (!worst || c.duration > worst.duration) worst = c;  worst is kept as a
\* position in the commit sequence (0: no commit yet)
PickWorstLast(commits, w, i) ==
    IF w = 0 \/ commits[i].duration >= commits[w].duration THEN i ELSE w

PickWorst(commits, w, i) ==
    IF w = 0 \/ commits[i].duration > commits[w].duration THEN i ELSE w

RECURSIVE WorstLoop(_, _, _)
WorstLoop(commits, w, i) ==
    IF i > Len(commits) THEN w
    ELSE WorstLoop(commits, PickWorst(commits, w, i), i + 1)

WorstIdx(commits) == WorstLoop(commits, 0, 1)

\* if (c.duration > budget) janky++;
IsJankyInclusive(c, budget) == c.duration >= budget

IsJanky(c, budget) == c.duration > budget

RECURSIVE JankyLoop(_, _, _)
JankyLoop(commits, budget, i) ==
    IF i > Len(commits) THEN 0
    ELSE (IF IsJanky(commits[i], budget) THEN 1 ELSE 0) + JankyLoop(commits, budget, i + 1)

\* durations.push(c.duration)
Durations(commits) == [i \in 1..Len(commits) |-> commits[i].duration]

\* (c.effectDuration ?? 0) > budget * 0.5, in tenths: 2 * x > budget
HeavyCount(commits, budget, field) ==
    Cardinality({i \in 1..Len(commits) :
        2 * Coalesce(IF field = "effect" THEN commits[i].effectDuration
                     ELSE commits[i].passiveEffectDuration, 0) > budget})

RECURSIVE MaxPassiveLoop(_, _, _)
MaxPassiveLoop(commits, m, i) ==
    IF i > Len(commits) THEN m
    ELSE LET p == Coalesce(commits[i].passiveEffectDuration, 0)
         IN  MaxPassiveLoop(commits, IF p > m THEN p ELSE m, i + 1)

(***************************************************************************)
(* The two Maps of Panel.stats, as sequences of <<name, value>> in         *)
(* insertion order (a JavaScript Map iterates in insertion order, and set  *)
(* on an existing key keeps the key's place).                              *)
(***************************************************************************)
\* const name = u.displayName || "(anonymous)"
UpdaterName(u) ==
    IF u.displayName = None \/ u.displayName[1] = "" THEN "(anonymous)"
    ELSE u.displayName[1]

\* for (const c of commits) for (const u of c.updaters ?? []): the entries
\* visited, in order, each with its name and the duration of its commit
RECURSIVE EntriesFrom(_, _)
EntriesFrom(commits, i) ==
    IF i > Len(commits) THEN <<>>
    ELSE LET us == Coalesce(commits[i].updaters, <<>>)
         IN  [j \in 1..Len(us) |->
                 [name |-> UpdaterName(us[j]), duration |-> commits[i].duration]]
             \o EntriesFrom(commits, i + 1)

Entries(commits) == EntriesFrom(commits, 1)

\* map.get(name) || 0
MapGetOrZero(m, k) ==
    IF \E i \in 1..Len(m) : m[i][1] = k
    THEN (LET i == CHOOSE j \in 1..Len(m) : m[j][1] = k IN m[i][2])
    ELSE 0

\* map.set(name, v)
MapSet(m, k, v) ==
    IF \E i \in 1..Len(m) : m[i][1] = k
    THEN [i \in 1..Len(m) |-> IF m[i][1] = k THEN <<k, v>> ELSE m[i]]
    ELSE Append(m, <<k, v>>)

\* updaterCounts.set(name, (updaterCounts.get(name) || 0) + 1)
RECURSIVE CountsLoop(_, _, _)
CountsLoop(es, m, i) ==
    IF i > Len(es) THEN m
    ELSE CountsLoop(es, MapSet(m, es[i].name, MapGetOrZero(m, es[i].name) + 1), i + 1)

UpdaterCounts(commits) == CountsLoop(Entries(commits), <<>>, 1)

\* updaterWeighted.set(name, (updaterWeighted.get(name) || 0) + c.duration)
RECURSIVE WeightedLoop(_, _, _)
WeightedLoop(es, m, i) ==
    IF i > Len(es) THEN m
    ELSE WeightedLoop(es,
            MapSet(m, es[i].name, MapGetOrZero(m, es[i].name) + es[i].duration), i + 1)

UpdaterWeighted(commits) == WeightedLoop(Entries(commits), <<>>, 1)

\* .filter(([name]) => name && name !== '(anonymous)')
KeepAll(e) == TRUE

NamedEntry(e) == e[1] # "" /\ e[1] # "(anonymous)"

FilterNamed(m) == SelectSeq(m, NamedEntry)

\* .sort((a, b) => b[1] - a[1]): Array.prototype.sort is stable, so an
\* insertion sort that places an entry after the entries of equal value
RECURSIVE InsertByValueDesc(_, _)
InsertByValueDesc(sorted, e) ==
    IF sorted = <<>> THEN <<e>>
    ELSE IF Head(sorted)[2] >= e[2]
         THEN <<Head(sorted)>> \o InsertByValueDesc(Tail(sorted), e)
         ELSE <<e>> \o sorted

RECURSIVE SortLoopByValueDesc(_, _, _)
SortLoopByValueDesc(m, sorted, i) ==
    IF i > Len(m) THEN sorted
    ELSE SortLoopByValueDesc(m, InsertByValueDesc(sorted, m[i]), i + 1)

SortByValueDesc(m) == SortLoopByValueDesc(m, <<>>, 1)

\* .slice(0, k)
Slice(s, k) == SubSeq(s, 1, IF Len(s) < k THEN Len(s) ELSE k)

TopCap == 8

TopUpdaters(commits) == Slice(SortByValueDesc(FilterNamed(UpdaterCounts(commits))), TopCap)

CulpritsByDuration(commits) ==
    Slice(SortByValueDesc(FilterNamed(UpdaterWeighted(commits))), TopCap)

(***************************************************************************)
(* Panel.stats: the figures derived after the loop                         *)
(***************************************************************************)
\* Math.round(a / b * 100) for a >= 0, b > 0: halves round up
RoundPercent(a, b) == (200 * a + b) \div (2 * b)

JankRate(janky, total) == RoundPercent(janky, total)

\* [...durations].sort((a, b) => a - b)
RECURSIVE InsertAsc(_, _)
InsertAsc(sorted, x) ==
    IF sorted = <<>> THEN <<x>>
    ELSE IF Head(sorted) <= x
         THEN <<Head(sorted)>> \o InsertAsc(Tail(sorted), x)
         ELSE <<x>> \o sorted

RECURSIVE SortLoopAsc(_, _, _)
SortLoopAsc(s, sorted, i) ==
    IF i > Len(s) THEN sorted ELSE SortLoopAsc(s, InsertAsc(sorted, s[i]), i + 1)

SortAsc(s) == SortLoopAsc(s, <<>>, 1)

\* n % 2 ? sorted[(n - 1) / 2] : (sorted[n / 2 - 1] + sorted[n / 2]) / 2, as
\* twice the median so that the half of an odd sum is kept (sorted is
\* 0-based in the code, 1-based here)
MedianUpper2(sorted) == 2 * sorted[(Len(sorted) \div 2) + 1]

Median2(sorted) ==
    LET n == Len(sorted)
    IN  IF n % 2 = 1 THEN 2 * sorted[((n - 1) \div 2) + 1]
        ELSE sorted[(n \div 2 - 1) + 1] + sorted[(n \div 2) + 1]

\* sorted[Math.floor(0.95 * (n - 1))]
P95(sorted) == sorted[((19 * (Len(sorted) - 1)) \div 20) + 1]

RECURSIVE Sum(_)
Sum(s) == IF s = <<>> THEN 0 ELSE Head(s) + Sum(Tail(s))

\* perMinute: windowMs > 0 ? Math.round(commits.length / windowMs * 60000) : undefined
PerMinuteNonZero(json, total) ==
    LET windowMs == Coalesce(IF json = None THEN None ELSE json[1].profilingEndTime, 0)
                    - Coalesce(IF json = None THEN None ELSE json[1].profilingStartTime, 0)
    IN  IF windowMs # 0 THEN Some((2 * 60000 * total + windowMs) \div (2 * windowMs))
        ELSE None

PerMinute(json, total) ==
    LET windowMs == Coalesce(IF json = None THEN None ELSE json[1].profilingEndTime, 0)
                    - Coalesce(IF json = None THEN None ELSE json[1].profilingStartTime, 0)
    IN  IF windowMs > 0 THEN Some((2 * 60000 * total + windowMs) \div (2 * windowMs))
        ELSE None

\* if (!commits.length) return null; ... return {...}.  avg is kept as the
\* fraction avgNum / avgDen (sum of the durations over Math.max(1, n)).
StatsAlways(commits, budget, json) ==
    Some([total |-> Len(commits), janky |-> 0, jankRate |-> 0])

Stats(commits, budget, json) ==
    IF Len(commits) = 0 THEN None
    ELSE LET janky == JankyLoop(commits, budget, 1)
             w == WorstIdx(commits)
             sorted == SortAsc(Durations(commits))
             n == Len(sorted)
         IN  Some([total |-> Len(commits),
                   janky |-> janky,
                   jankRate |-> JankRate(janky, Len(commits)),
                   worst |-> commits[w],
                   topUpdaters |-> TopUpdaters(commits),
                   avgNum |-> Sum(sorted),
                   avgDen |-> IF n > 1 THEN n ELSE 1,
                   median2 |-> Median2(sorted),
                   p95 |-> P95(sorted),
                   culpritsByDuration |-> CulpritsByDuration(commits),
                   effectShare |-> RoundPercent(HeavyCount(commits, budget, "effect"),
                                                Len(commits)),
                   passiveShare |-> RoundPercent(HeavyCount(commits, budget, "passive"),
                                                 Len(commits)),
                   maxPassive |-> MaxPassiveLoop(commits, 0, 1),
                   perMinute |-> PerMinute(json, Len(commits))])

(***************************************************************************)
(* Panel.jankyCommits                                                      *)
(***************************************************************************)
\* .map((c, i) => ({ ...c, idx: i })): idx is the 0-based position
WithIdxOneBased(commits) == [i \in 1..Len(commits) |-> [c |-> commits[i], idx |-> i]]

WithIdx(commits) == [i \in 1..Len(commits) |-> [c |-> commits[i], idx |-> i - 1]]

\* .filter((c) => c.duration > budget)
OverBudgetInclusive(budget, s) == SelectSeq(s, LAMBDA e : e.c.duration >= budget)

OverBudget(budget, s) == SelectSeq(s, LAMBDA e : e.c.duration > budget)

\* .sort((a, b) => b.duration - a.duration), stable
RECURSIVE InsertByDurationDesc(_, _)
InsertByDurationDesc(sorted, e) ==
    IF sorted = <<>> THEN <<e>>
    ELSE IF Head(sorted).c.duration >= e.c.duration
         THEN <<Head(sorted)>> \o InsertByDurationDesc(Tail(sorted), e)
         ELSE <<e>> \o sorted

RECURSIVE SortLoopByDurationDesc(_, _, _)
SortLoopByDurationDesc(s, sorted, i) ==
    IF i > Len(s) THEN sorted
    ELSE SortLoopByDurationDesc(s, InsertByDurationDesc(sorted, s[i]), i + 1)

SortByDurationDesc(s) == SortLoopByDurationDesc(s, <<>>, 1)

JankCap == 20

JankyCommits(commits, budget) ==
    Slice(SortByDurationDesc(OverBudget(budget, WithIdx(commits))), JankCap)

(***************************************************************************)
(* Suggestions                                                             *)
(***************************************************************************)
\* ms(n): "—" for a non-number, else n.toFixed(1) + " ms"; for a value in
\* tenths of a millisecond the text is its whole part and its one decimal
Ms(t) == IF t = None THEN <<>> ELSE <<t[1] \div 10, t[1] % 10>>

\* one suggestion: its fixed text and the values interpolated into it
Msg(text, nums, name) == [text |-> text, nums |-> nums, name |-> name]

MsgJank == Msg("High jank rate", <<>>, "")
MsgP95(p95, budget) == Msg("P95 exceeds budget", Ms(Some(p95)) \o Ms(Some(budget)), "")
MsgPassive == Msg("Large passive effects", <<>>, "")
MsgAvg == Msg("Average commit close to budget", <<>>, "")
MsgAnon == Msg("Anonymous updaters", <<>>, "")
MsgFps(f) == Msg("Low FPS observed", <<f>>, "")
MsgStall(st) == Msg("JS thread stalls totaled", Ms(IF st = None THEN None ELSE Some(10 * st[1])), "")
MsgCulprit(n) == Msg("Top culprit", <<>>, n)
MsgHealthy == Msg("Looks healthy", <<>>, "")

\* the if statements of Suggestions, in order; metrics is the prop
\* {worstFps?, stallTotalMs?}
SuggestionsElseIf(st, budget, metrics) ==
    LET i1 == IF st.jankRate > 20 THEN <<MsgJank>> ELSE <<>>
        i2 == IF Len(i1) = 0 /\ st.p95 > budget
              THEN Append(i1, MsgP95(st.p95, budget)) ELSE i1
        i3 == IF 2 * OrZero(st.worst.passiveEffectDuration) > budget
              THEN Append(i2, MsgPassive) ELSE i2
        i4 == IF 10 * st.avgNum > 6 * budget * st.avgDen
              THEN Append(i3, MsgAvg) ELSE i3
        i5 == IF \E i \in 1..Len(st.topUpdaters) : st.topUpdaters[i][1] = "(anonymous)"
              THEN Append(i4, MsgAnon) ELSE i4
        i6 == IF metrics.worstFps # None /\ metrics.worstFps[1] < 50
              THEN Append(i5, MsgFps(metrics.worstFps[1])) ELSE i5
        i7 == IF Coalesce(metrics.stallTotalMs, 0) > 200
              THEN Append(i6, MsgStall(metrics.stallTotalMs)) ELSE i6
        i8 == IF Len(st.culpritsByDuration) > 0
              THEN Append(i7, MsgCulprit(st.culpritsByDuration[1][1])) ELSE i7
    IN  IF Len(i8) = 0 THEN Append(i8, MsgHealthy) ELSE i8

SuggestionsHealthyLast(st, budget, metrics) ==
    LET i1 == IF st.jankRate > 20 THEN <<MsgJank>> ELSE <<>>
        i2 == IF st.p95 > budget THEN Append(i1, MsgP95(st.p95, budget)) ELSE i1
        i3 == IF 2 * OrZero(st.worst.passiveEffectDuration) > budget
              THEN Append(i2, MsgPassive) ELSE i2
        i4 == IF 10 * st.avgNum > 6 * budget * st.avgDen
              THEN Append(i3, MsgAvg) ELSE i3
        i5 == IF \E i \in 1..Len(st.topUpdaters) : st.topUpdaters[i][1] = "(anonymous)"
              THEN Append(i4, MsgAnon) ELSE i4
        i6 == IF metrics.worstFps # None /\ metrics.worstFps[1] < 50
              THEN Append(i5, MsgFps(metrics.worstFps[1])) ELSE i5
        i7 == IF Coalesce(metrics.stallTotalMs, 0) > 200
              THEN Append(i6, MsgStall(metrics.stallTotalMs)) ELSE i6
        i8 == IF Len(st.culpritsByDuration) > 0
              THEN Append(i7, MsgCulprit(st.culpritsByDuration[1][1])) ELSE i7
    IN  IF Len(i8) <= 1 THEN Append(i8, MsgHealthy) ELSE i8

Suggestions(st, budget, metrics) ==
    LET i1 == IF st.jankRate > 20 THEN <<MsgJank>> ELSE <<>>
        i2 == IF st.p95 > budget THEN Append(i1, MsgP95(st.p95, budget)) ELSE i1
        \* (stats.worst.passiveEffectDuration || 0) > budget * 0.5
        i3 == IF 2 * OrZero(st.worst.passiveEffectDuration) > budget
              THEN Append(i2, MsgPassive) ELSE i2
        \* stats.avg > budget * 0.6
        i4 == IF 10 * st.avgNum > 6 * budget * st.avgDen
              THEN Append(i3, MsgAvg) ELSE i3
        i5 == IF \E i \in 1..Len(st.topUpdaters) : st.topUpdaters[i][1] = "(anonymous)"
              THEN Append(i4, MsgAnon) ELSE i4
        \* metrics?.worstFps != null && metrics.worstFps < 50
        i6 == IF metrics.worstFps # None /\ metrics.worstFps[1] < 50
              THEN Append(i5, MsgFps(metrics.worstFps[1])) ELSE i5
        \* (metrics?.stallTotalMs ?? 0) > 200
        i7 == IF Coalesce(metrics.stallTotalMs, 0) > 200
              THEN Append(i6, MsgStall(metrics.stallTotalMs)) ELSE i6
        i8 == IF Len(st.culpritsByDuration) > 0
              THEN Append(i7, MsgCulprit(st.culpritsByDuration[1][1])) ELSE i7
    IN  IF Len(i8) = 0 THEN Append(i8, MsgHealthy) ELSE i8      \* if (!items.length)

(***************************************************************************)
(* Bounded inputs: the profile documents a user can load                   *)
(***************************************************************************)
MaxCommits == 3
MaxPassiveCommits == 2
MaxTokens == 4
LongExtra == 2
NameExtra == 2

\* 5 ms, the two budgets 8.3 ms and 16.7 ms themselves, 20 ms, 30 ms
DurSet == {50, 83, 167, 200, 300}

PlainCommit(d) == Commit(d, None, None, None)

\* a document with the given roots and no profiling window
DocOfRoots(roots) == ProfilerJSON(roots, None, None)

\* the usual shape: one root holding the commits
DocOf(commits) == DocOfRoots(JArray(<<RootObj(JArray(commits))>>))

SeqsUpTo(S, n) == UNION {[1..k -> S] : k \in 0..n}

\* commits that differ in their duration only
PlainDocs == {DocOf(cs) : cs \in SeqsUpTo({PlainCommit(d) : d \in DurSet}, MaxCommits)}

\* commits with a passive effect duration: absent, 0, 4.2 ms, 9 ms
PassiveDocs ==
    {DocOf(cs) : cs \in SeqsUpTo({Commit(d, None, p, None) :
                                     d \in {50, 200}, p \in {None, Some(0), Some(42), Some(90)}},
                                 MaxPassiveCommits)}

\* commits with updaters, written as a token sequence: "c50" and "c200" begin
\* a commit of that duration, the other tokens add an updater to the commit
\* begun last (an updater token before the first commit is dropped)
TokenSet == {"c50", "c200", "uMissing", "uAnon", "uFoo", "uBar"}

TokenUpdater(t) ==
    CASE t = "uMissing" -> Updater(None)
      [] t = "uAnon" -> Updater(Some("(anonymous)"))
      [] t = "uFoo" -> Updater(Some("Foo"))
      [] t = "uBar" -> Updater(Some("Bar"))

RECURSIVE BuildCommits(_, _, _)
BuildCommits(ts, i, cs) ==
    IF i > Len(ts) THEN cs
    ELSE IF ts[i] \in {"c50", "c200"}
         THEN BuildCommits(ts, i + 1,
                Append(cs, PlainCommit(IF ts[i] = "c50" THEN 50 ELSE 200)))
         ELSE IF cs = <<>> THEN BuildCommits(ts, i + 1, cs)
         ELSE LET last == cs[Len(cs)]
                  us == Append(Coalesce(last.updaters, <<>>), TokenUpdater(ts[i]))
              IN  BuildCommits(ts, i + 1,
                    [cs EXCEPT ![Len(cs)] = [last EXCEPT !.updaters = Some(us)]])

UpdaterDocs == {DocOf(BuildCommits(ts, 1, <<>>)) : ts \in SeqsUpTo(TokenSet, MaxTokens)}

\* long documents, around the jank table's cap: a pattern of at most three
\* durations repeated
LongDocs ==
    {DocOf([i \in 1..n |-> PlainCommit(pat[((i - 1) % Len(pat)) + 1])]) :
        n \in (JankCap - 1)..(JankCap + LongExtra),
        pat \in SeqsUpTo({50, 200, 300}, 3) \ {<<>>}}

\* documents with many updater names, around the rankings' cap: the first
\* commit names the first k components, the second the components j..k
NamePool == <<"Foo", "Bar", "Baz", "Qux", "List", "Row", "Cell", "Header",
              "Footer", "Modal", "Toast", "Nav">>

NamedUpdaters(j, k) == [i \in 1..(k - j + 1) |-> Updater(Some(NamePool[j + i - 1]))]

ManyNameDocs ==
    {DocOf(<<Commit(dd[1], None, None, Some(NamedUpdaters(1, k))),
             Commit(dd[2], None, None, Some(NamedUpdaters(j, k)))>>) :
        k \in (TopCap - 1)..(TopCap + NameExtra), j \in 1..(TopCap + NameExtra + 1),
        dd \in {<<50, 200>>, <<200, 50>>}}

\* the durations 1..10 ms, out of order
TenDoc == DocOf([i \in 1..10 |-> PlainCommit(10 * (((i * 7) % 10) + 1))])

\* malformed and partial documents, and documents with a second root
SecondRoot == RootObj(JArray(<<PlainCommit(300), PlainCommit(50)>>))

FirstRoots ==
    {RootNull, RootUndefined, RootObj(JUndefined), RootObj(JNull), RootObj(JOther),
     RootObj(JArray(<<>>)), RootObj(JArray(<<PlainCommit(200), PlainCommit(50)>>))}

ShapeDocs ==
    {DocOfRoots(r) : r \in {JUndefined, JNull, JOther, JArray(<<>>)}}
    \cup {DocOfRoots(JArray(<<f>>)) : f \in FirstRoots}
    \cup {DocOfRoots(JArray(<<f, SecondRoot>>)) : f \in FirstRoots}

\* updaters [{}, Foo] and [Foo] across two commits
FooDoc ==
    DocOf(<<Commit(50, None, None, Some(<<Updater(None), Updater(Some("Foo"))>>)),
            Commit(200, None, None, Some(<<Updater(Some("Foo"))>>))>>)

\* updaters with an empty display name among named and unnamed ones
EmptyNameDocs ==
    {DocOf(<<Commit(200, None, None, Some(<<Updater(Some("")), u>>)),
             Commit(50, None, None, Some(<<v, Updater(Some(""))>>))>>) :
        u \in {Updater(None), Updater(Some("")), Updater(Some("Foo"))},
        v \in {Updater(Some("(anonymous)")), Updater(Some("Bar")), Updater(Some("Foo"))}}

\* commits that carry a timestamp, under profiling windows that are missing,
\* positive, zero, negative or half given
TimedCommit(d, t) ==
    [duration |-> d, effectDuration |-> None, passiveEffectDuration |-> None,
     updaters |-> None, timestamp |-> Some(t)]

Windows ==
    {<<None, None>>, <<Some(0), Some(5000)>>, <<Some(1000), Some(8000)>>,
     <<Some(5000), Some(5000)>>, <<Some(8000), Some(1000)>>,
     <<None, Some(7000)>>, <<Some(5), None>>}

WindowDocs ==
    {ProfilerJSON(JArray(<<RootObj(JArray([i \in 1..n |-> TimedCommit(200, 1000 + i * gap)]))>>),
                  w[1], w[2]) :
        n \in 1..MaxCommits, gap \in {1000, 3000}, w \in Windows}

InputDocs == PlainDocs \cup PassiveDocs \cup UpdaterDocs \cup LongDocs
             \cup ManyNameDocs \cup ShapeDocs \cup EmptyNameDocs \cup {TenDoc, FooDoc}
             \cup WindowDocs

(***************************************************************************)
(* State                                                                   *)
(***************************************************************************)
VARIABLES
    \* Panel (React state)
    profile,              \* ProfilerJSON | null
    hz,                   \* 60 | 120
    isCapturing,
    fps,                  \* number | null
    stallsMs,             \* number | null
    sessionWorstFps,      \* number | null
    sessionStallTotalMs,  \* number
    \* the decoded content of the file the user selected: [ok, json], ok
    \* FALSE when JSON.parse throws
    file,
    \* bridge (closure variables of setupPlugin)
    capturing,
    usedHook,
    lastHookPayload,
    hooks,                \* wrappers installed around onCommitFiberRoot
    pollers,              \* active export-poller intervals
    timerLive,            \* the id held in timer names an active interval
    rafChains,            \* pending frame-tick timeouts
    fpsTimerLive,         \* the id held in fpsTimer names a pending timeout
    emitters,             \* active fps-emitter intervals
    emitLive,             \* __perfFlameStopEmit would clear an active interval
    \* transport, each direction delivered in order
    toBridge,
    toPanel,
    sent,                 \* messages the bridge has sent so far
    \* history: the fps values received since the most recent capture start
    sessionStarted,
    sinceStart,
    \* history: the most recent toggleCapture turned capture off; the profile
    \* replacements that stop has caused so far; the exports in toPanel that
    \* the stop-profiler handler sent for an earlier stop
    stopped,
    terminalSets,
    staleFinals,
    \* history: the bridge has ignored a start-profiler while capturing
    startIgnored,
    \* history: lastHookPayload was stored since the most recent start of a
    \* capture in the bridge
    hookFresh

panelVars == <<profile, hz, isCapturing, fps, stallsMs, sessionWorstFps,
               sessionStallTotalMs, file>>
bridgeVars == <<capturing, usedHook, lastHookPayload, hooks, pollers, timerLive,
                rafChains, fpsTimerLive, emitters, emitLive>>
netVars == <<toBridge, toPanel, sent>>
histVars == <<sessionStarted, sinceStart, stopped, terminalSets, staleFinals, startIgnored,
              hookFresh>>
vars == <<panelVars, bridgeVars, netVars, histVars>>

\* what the render derives from the state (React.useMemo)
budget == Budget(hz)
commits == IF profile # None THEN parseCommits(profile) ELSE <<>>
stats == Stats(commits, budget, profile)
jankyCommits == JankyCommits(commits, budget)
metricsProp == [worstFps |-> sessionWorstFps, stallTotalMs |-> Some(sessionStallTotalMs)]
\* <Suggestions/> is rendered inside {stats && (...)}
suggestions == IF stats = None THEN None ELSE Some(Suggestions(stats[1], budget, metricsProp))

(***************************************************************************)
(* Bounds of the protocol model                                            *)
(***************************************************************************)
MaxQueue == 2
MaxSent == 3
MaxHooks == 2
MaxStallTotal == 600

\* the {fps, jsStallsMs} samples an fps-tick can carry
Samples == {[fps |-> 60, jsStallsMs |-> 0], [fps |-> 45, jsStallsMs |-> 300]}

\* what the bridge can harvest or export
BridgeDocs ==
    {ProfilerJSON(JArray(<<RootObj(JArray(<<PlainCommit(200)>>))>>), Some(0), Some(5000)),
     ProfilerJSON(JArray(<<RootObj(JArray(<<PlainCommit(50), PlainCommit(300)>>))>>),
                  Some(0), Some(5000))}

\* final is history, not payload: it marks the export the stop-profiler
\* handler sends
Message(type, h, f, st, data) ==
    [type |-> type, hz |-> h, fps |-> f, jsStallsMs |-> st, data |-> data,
     final |-> FALSE]

BridgeInit ==
    /\ capturing = FALSE
    /\ usedHook = FALSE
    /\ lastHookPayload = None
    /\ hooks = 0
    /\ pollers = 0
    /\ timerLive = FALSE
    /\ rafChains = 0
    /\ fpsTimerLive = FALSE
    /\ emitters = 0
    /\ emitLive = FALSE
    /\ toBridge = <<>>
    /\ toPanel = <<>>
    /\ sent = 0

\* Panel's useState initial values
Init ==
    /\ profile = None
    /\ hz = 60
    /\ isCapturing = FALSE
    /\ fps = None
    /\ stallsMs = None
    /\ sessionWorstFps = None
    /\ sessionStallTotalMs = 0
    /\ file = [ok |-> FALSE, json |-> None]
    /\ BridgeInit
    /\ sessionStarted = FALSE
    /\ sinceStart = {}
    /\ stopped = FALSE
    /\ terminalSets = 0
    /\ staleFinals = 0
    /\ startIgnored = FALSE
    /\ hookFresh = FALSE

(***************************************************************************)
(* Panel operations                                                        *)
(***************************************************************************)
\* onFile / onDrop: reader.onload parses the file and calls setProfile
onFile ==
    /\ file.ok
    /\ profile' = file.json
    /\ UNCHANGED <<hz, isCapturing, fps, stallsMs, sessionWorstFps, sessionStallTotalMs,
                   file, bridgeVars, netVars, histVars>>

\* <select onChange={(e) => setHz(...)}>
setHz ==
    /\ \E h \in {60, 120} : h # hz /\ hz' = h
    /\ UNCHANGED <<profile, isCapturing, fps, stallsMs, sessionWorstFps,
                   sessionStallTotalMs, file, bridgeVars, netVars, histVars>>

\* client.onMessage("profiler-export", ...)
RecvProfilerExport ==
    /\ toPanel # <<>>
    /\ Head(toPanel).type = "profiler-export"
    /\ profile' = Head(toPanel).data
    /\ toPanel' = Tail(toPanel)
    /\ IF ~Head(toPanel).final
       THEN UNCHANGED <<terminalSets, staleFinals>>
       ELSE IF staleFinals > 0
            THEN staleFinals' = staleFinals - 1 /\ UNCHANGED terminalSets
            ELSE terminalSets' = terminalSets + 1 /\ UNCHANGED staleFinals
    /\ UNCHANGED <<hz, isCapturing, fps, stallsMs, sessionWorstFps, sessionStallTotalMs,
                   file, bridgeVars, toBridge, sent, sessionStarted, sinceStart, stopped,
                   startIgnored, hookFresh>>

\* setSessionWorstFps((prev) => prev == null ? d.fps : Math.min(prev, d.fps))
FoldWorstFpsMax(prev, f) ==
    IF prev = None THEN Some(f) ELSE Some(IF prev[1] > f THEN prev[1] ELSE f)

FoldWorstFps(prev, f) ==
    IF prev = None THEN Some(f) ELSE Some(IF prev[1] < f THEN prev[1] ELSE f)

\* setSessionStallTotalMs((prev) => prev + (d.jsStallsMs || 0))
FoldStallTotalMax(prev, st) == IF st > prev THEN st ELSE prev

FoldStallTotal(prev, st) == prev + st

\* client.onMessage("fps-tick", ...)
RecvFpsTick ==
    /\ toPanel # <<>>
    /\ Head(toPanel).type = "fps-tick"
    /\ LET d == Head(toPanel)
       IN  /\ FoldStallTotal(sessionStallTotalMs, d.jsStallsMs) <= MaxStallTotal
           /\ FoldStallTotal(sessionStallTotalMs, d.jsStallsMs) >= -MaxStallTotal
           /\ fps' = Some(d.fps)
           /\ stallsMs' = Some(d.jsStallsMs)
           /\ sessionWorstFps' = FoldWorstFps(sessionWorstFps, d.fps)
           /\ sessionStallTotalMs' = FoldStallTotal(sessionStallTotalMs, d.jsStallsMs)
           /\ sinceStart' = sinceStart \cup {d.fps}
    /\ toPanel' = Tail(toPanel)
    /\ UNCHANGED <<profile, hz, isCapturing, file, bridgeVars, toBridge, sent,
                   sessionStarted, stopped, terminalSets, staleFinals, startIgnored,
                   hookFresh>>

Finals(q) == Cardinality({i \in 1..Len(q) : q[i].final})

\* toggleCapture, with the DevTools profilerStore of the panel's page either
\* absent (store = FALSE) or present and returning data from getProfilingData
ToggleResetsSession(next) ==
    IF next
    THEN sessionWorstFps' = None /\ sessionStallTotalMs' = 0
    ELSE UNCHANGED <<sessionWorstFps, sessionStallTotalMs>>

toggleCapture ==
    /\ Len(toBridge) < MaxQueue
    /\ LET next == ~isCapturing
       IN  /\ isCapturing' = next
           /\ ToggleResetsSession(next)
           /\ \E store \in BOOLEAN, data \in {None} \cup {Some(d) : d \in BridgeDocs} :
                IF store /\ ~next /\ data # None
                THEN profile' = data /\ terminalSets' = 1
                ELSE UNCHANGED profile /\ terminalSets' = 0
           /\ toBridge' = Append(toBridge,
                Message(IF next THEN "start-profiler" ELSE "stop-profiler", hz, 0, 0, None))
           /\ sessionStarted' = (sessionStarted \/ next)
           /\ sinceStart' = IF next THEN {} ELSE sinceStart
           /\ stopped' = ~next
           /\ staleFinals' = Finals(toPanel)
    /\ UNCHANGED <<hz, fps, stallsMs, file, bridgeVars, toPanel, sent, startIgnored,
                   hookFresh>>

\* the Clear button
Clear ==
    /\ Len(toBridge) < MaxQueue
    /\ profile' = None
    /\ fps' = None
    /\ stallsMs' = None
    /\ isCapturing' = FALSE
    /\ toBridge' = Append(toBridge, Message("reset-profiler", 0, 0, 0, None))
    /\ UNCHANGED <<hz, sessionWorstFps, sessionStallTotalMs, file, bridgeVars, toPanel,
                   sent, histVars>>

(***************************************************************************)
(* Bridge operations (setupPlugin)                                         *)
(***************************************************************************)
Send(msgs) ==
    /\ Len(toPanel) + Len(msgs) <= MaxQueue
    /\ sent + Len(msgs) <= MaxSent
    /\ toPanel' = toPanel \o msgs
    /\ sent' = sent + Len(msgs)

Export(data) == Message("profiler-export", 0, 0, 0, data)

FinalExport(data) == [Export(data) EXCEPT !.final = TRUE]

\* the stop-profiler at the head of toBridge is the panel's most recent stop
LatestStop ==
    /\ stopped
    /\ \A i \in 2..Len(toBridge) : toBridge[i].type # "stop-profiler"

\* client.onMessage('start-profiler', ...); hookable: the page has
\* __REACT_DEVTOOLS_GLOBAL_HOOK__.onCommitFiberRoot, so that tryHookProfiler
\* wraps it once more and sets usedHook
BridgeStart ==
    /\ toBridge # <<>>
    /\ Head(toBridge).type = "start-profiler"
    /\ toBridge' = Tail(toBridge)
    /\ IF capturing
       THEN UNCHANGED bridgeVars
       ELSE /\ capturing' = TRUE
            /\ \E hookable \in BOOLEAN :
                 IF hookable
                 THEN hooks < MaxHooks /\ hooks' = hooks + 1 /\ usedHook' = TRUE
                 ELSE UNCHANGED <<hooks, usedHook>>
            /\ pollers' = pollers + 1
            /\ timerLive' = TRUE
            /\ rafChains' = rafChains + 1
            /\ fpsTimerLive' = TRUE
            /\ emitters' = emitters + 1
            /\ emitLive' = TRUE
            /\ UNCHANGED lastHookPayload
    /\ startIgnored' = (startIgnored \/ capturing)
    /\ hookFresh' = (capturing /\ hookFresh)
    /\ UNCHANGED <<panelVars, toPanel, sent, sessionStarted, sinceStart, stopped,
                   terminalSets, staleFinals>>

\* if (timer) clearInterval(timer); if (fpsTimer) clearTimeout(fpsTimer);
\* __perfFlameStopEmit?.()
ClearTimersKeepEmit ==
    /\ pollers' = IF timerLive THEN pollers - 1 ELSE pollers
    /\ timerLive' = FALSE
    /\ rafChains' = IF fpsTimerLive THEN rafChains - 1 ELSE rafChains
    /\ fpsTimerLive' = FALSE
    /\ UNCHANGED <<emitters, emitLive>>

ClearTimers ==
    /\ pollers' = IF timerLive THEN pollers - 1 ELSE pollers
    /\ timerLive' = FALSE
    /\ rafChains' = IF fpsTimerLive THEN rafChains - 1 ELSE rafChains
    /\ fpsTimerLive' = FALSE
    /\ emitters' = IF emitLive THEN emitters - 1 ELSE emitters
    /\ emitLive' = FALSE

\* client.onMessage('stop-profiler', ...); the fallback export
\* (NativeModules.PerfFlame.export / __perfFlameExport) may supply nothing
BridgeStop ==
    /\ toBridge # <<>>
    /\ Head(toBridge).type = "stop-profiler"
    /\ toBridge' = Tail(toBridge)
    /\ capturing' = FALSE
    /\ ClearTimers
    /\ IF usedHook /\ lastHookPayload # None
       THEN Send(<<FinalExport(lastHookPayload)>>)
       ELSE \E payload \in {None} \cup {Some(d) : d \in BridgeDocs} :
              IF payload # None THEN Send(<<FinalExport(payload)>>)
              ELSE UNCHANGED <<toPanel, sent>>
    /\ staleFinals' = IF sent' # sent /\ ~LatestStop THEN staleFinals + 1 ELSE staleFinals
    /\ usedHook' = FALSE
    /\ lastHookPayload' = None
    /\ hookFresh' = FALSE
    /\ UNCHANGED <<hooks, panelVars, sessionStarted, sinceStart, stopped, terminalSets,
                   startIgnored>>

\* client.onMessage('reset-profiler', ...)
BridgeResetKeepsCapturing ==
    /\ toBridge # <<>>
    /\ Head(toBridge).type = "reset-profiler"
    /\ toBridge' = Tail(toBridge)
    /\ ClearTimers
    /\ UNCHANGED <<capturing, usedHook, lastHookPayload, hooks, panelVars, toPanel, sent,
                   histVars>>

BridgeReset ==
    /\ toBridge # <<>>
    /\ Head(toBridge).type = "reset-profiler"
    /\ toBridge' = Tail(toBridge)
    /\ capturing' = FALSE
    /\ ClearTimers
    /\ UNCHANGED <<usedHook, lastHookPayload, hooks, panelVars, toPanel, sent, histVars>>

\* the fps-emitter interval fires: the fps and the stall total it reports
\* depend on the timing of the frame ticks (lastTick, stallAccum), which is
\* left open: any sample of Samples
EmitFps ==
    /\ emitters > 0
    /\ IF capturing
       THEN \E d \in Samples : Send(<<Message("fps-tick", 0, d.fps, d.jsStallsMs, None)>>)
       ELSE UNCHANGED <<toPanel, sent>>
    /\ UNCHANGED <<panelVars, bridgeVars, toBridge, histVars>>

\* the fallback poller of line 122 fires
Poller ==
    /\ pollers > 0
    /\ IF capturing
       THEN \E payload \in {None} \cup {Some(d) : d \in BridgeDocs} :
              IF payload # None THEN Send(<<Export(payload)>>)
              ELSE UNCHANGED <<toPanel, sent>>
       ELSE UNCHANGED <<toPanel, sent>>
    /\ UNCHANGED <<panelVars, bridgeVars, toBridge, histVars>>

\* a frame-tick timeout fires: raf reschedules itself while capturing
Raf ==
    /\ rafChains > 0
    /\ IF capturing
       THEN fpsTimerLive' = TRUE /\ UNCHANGED rafChains
       ELSE rafChains' = rafChains - 1 /\ UNCHANGED fpsTimerLive
    /\ UNCHANGED <<capturing, usedHook, lastHookPayload, hooks, pollers, timerLive,
                   emitters, emitLive, panelVars, netVars, histVars>>

\* React commits a root: every installed wrapper of onCommitFiberRoot runs,
\* outermost first; extractProfilerData returns null when no fiber carries
\* an actualDuration
ReactCommit ==
    /\ hooks > 0
    /\ \E data \in {None} \cup {Some(d) : d \in BridgeDocs} :
         IF capturing /\ data # None
         THEN /\ lastHookPayload' = data
              /\ hookFresh' = TRUE
              /\ Send([i \in 1..hooks |-> Export(data)])
         ELSE UNCHANGED <<lastHookPayload, hookFresh, toPanel, sent>>
    /\ UNCHANGED <<capturing, usedHook, hooks, pollers, timerLive, rafChains, fpsTimerLive,
                   emitters, emitLive, panelVars, toBridge, sessionStarted, sinceStart,
                   stopped, terminalSets, staleFinals, startIgnored>>

Next ==
    \/ toggleCapture
    \/ Clear
    \/ RecvProfilerExport
    \/ RecvFpsTick
    \/ BridgeStart
    \/ BridgeStop
    \/ BridgeReset
    \/ EmitFps
    \/ Poller
    \/ Raf
    \/ ReactCommit

Spec == Init /\ [][Next]_vars

(***************************************************************************)
(* The panel's live session tracker on its own: the fps-tick handler takes *)
(* whatever sample the transport delivers ({fps: number, jsStallsMs:       *)
(* number}), here from a peer on the transport that need not be this       *)
(* bridge.                                                                 *)
(***************************************************************************)
TrackerSamples == Samples \cup {[fps |-> 60, jsStallsMs |-> -300]}

PeerSample ==
    /\ Len(toPanel) < MaxQueue
    /\ \E d \in TrackerSamples :
         toPanel' = Append(toPanel, Message("fps-tick", 0, d.fps, d.jsStallsMs, None))
    /\ UNCHANGED <<panelVars, bridgeVars, toBridge, sent, histVars>>

\* the peer takes the message at the head of toBridge
PeerTake ==
    /\ toBridge # <<>>
    /\ toBridge' = Tail(toBridge)
    /\ UNCHANGED <<panelVars, bridgeVars, toPanel, sent, histVars>>

NextTracker ==
    \/ PeerSample
    \/ PeerTake
    \/ RecvFpsTick
    \/ toggleCapture
    \/ Clear

SpecTracker == Init /\ [][NextTracker]_vars

(***************************************************************************)
(* The bridge on its own: its handlers take start-profiler, stop-profiler  *)
(* and reset-profiler in whatever order the transport delivers them, here  *)
(* from a peer on the transport that need not be this panel.               *)
(***************************************************************************)
PeerCommand ==
    /\ Len(toBridge) < MaxQueue
    /\ \E t \in {"start-profiler", "stop-profiler", "reset-profiler"} :
         toBridge' = Append(toBridge, Message(t, 60, 0, 0, None))
    /\ UNCHANGED <<panelVars, bridgeVars, toPanel, sent, histVars>>

\* the peer takes the message at the head of toPanel
PeerReceive ==
    /\ toPanel # <<>>
    /\ toPanel' = Tail(toPanel)
    /\ UNCHANGED <<panelVars, bridgeVars, toBridge, sent, histVars>>

NextBridge ==
    \/ PeerCommand
    \/ PeerReceive
    \/ BridgeStart
    \/ BridgeStop
    \/ BridgeReset
    \/ EmitFps
    \/ Poller
    \/ Raf
    \/ ReactCommit

SpecBridge == Init /\ [][NextBridge]_vars

(***************************************************************************)
(* The analysis engine on its own: a file is loaded and the frame rate is  *)
(* switched, with live metrics a capture session may have left behind.     *)
(***************************************************************************)
EngineMetrics == {<<None, 0>>, <<Some(45), 315>>}

InitEngine ==
    /\ profile = None
    /\ hz \in {60, 120}
    /\ isCapturing = FALSE
    /\ fps = None
    /\ stallsMs = None
    /\ \E m \in EngineMetrics :
         /\ sessionWorstFps = m[1]
         /\ sessionStallTotalMs = m[2]
         /\ sessionStarted = (m[1] # None)
         /\ sinceStart = (IF m[1] = None THEN {} ELSE {m[1][1]})
    /\ stopped = FALSE
    /\ terminalSets = 0
    /\ staleFinals = 0
    /\ startIgnored = FALSE
    /\ hookFresh = FALSE
    /\ file \in {[ok |-> FALSE, json |-> None], [ok |-> TRUE, json |-> None]}
                \cup {[ok |-> TRUE, json |-> Some(d)] : d \in InputDocs}
    /\ BridgeInit

NextEngine ==
    \/ onFile
    \/ setHz

SpecEngine == InitEngine /\ [][NextEngine]_vars

(***************************************************************************)
(* Properties                                                              *)
(***************************************************************************)
Min(S) == CHOOSE x \in S : \A y \in S : x <= y
Max(S) == CHOOSE x \in S : \A y \in S : x >= y

\* the first root's commitData when the document has that shape, else nothing
C1_FirstRootCommits(json) ==
    IF /\ json # None
       /\ json[1].dataForRoots.tag = "array"
       /\ Len(json[1].dataForRoots.items) >= 1
       /\ json[1].dataForRoots.items[1].tag = "object"
       /\ json[1].dataForRoots.items[1].commitData.tag = "array"
    THEN json[1].dataForRoots.items[1].commitData.items
    ELSE <<>>

\* C1: parseCommits returns the first root's commitData, in order, when it is
\* an array, and the empty sequence for every other document shape (null
\* document, dataForRoots absent or empty, first root without commitData,
\* commitData not an array); roots after the first are never read.  Checked
\* on the selected file before it is loaded and on the loaded profile.
C1_ParseFirstRootOnly ==
    /\ parseCommits(file.json) = C1_FirstRootCommits(file.json)
    /\ parseCommits(profile) = C1_FirstRootCommits(profile)
    /\ commits = C1_FirstRootCommits(profile)

\* a loaded document with two roots, both holding commits: the first root's
\* commits are returned
C1_Witness ==
    /\ profile # None
    /\ profile[1].dataForRoots.tag = "array"
    /\ Len(profile[1].dataForRoots.items) = 2
    /\ profile[1].dataForRoots.items[2].commitData.items # <<>>
    /\ commits = <<PlainCommit(200), PlainCommit(50)>>

\* C2: the stats are absent exactly when the commit sequence is empty (no
\* profile, or a profile that extracts to no commits), and present otherwise.
C2_StatsAbsentIffNoCommits ==
    (profile = None \/ C1_FirstRootCommits(profile) = <<>>) <=> (stats = None)

\* a loaded profile that extracts to no commits: stats absent
C2_Witness ==
    /\ profile # None
    /\ profile[1].dataForRoots.tag = "array"
    /\ Len(profile[1].dataForRoots.items) >= 1
    /\ commits = <<>>
    /\ stats = None

\* C3: janky is the number of commits with duration strictly above the
\* budget, so janky <= total; jankRate is janky / total * 100 rounded to the
\* nearest integer (halves up) and lies in 0..100.
C3_JankCountAndRate ==
    stats # None =>
        LET st == stats[1]
            over == {i \in 1..Len(commits) : commits[i].duration > budget}
        IN  /\ st.total = Len(commits)
            /\ st.janky = Cardinality(over)
            /\ st.janky <= st.total
            /\ st.jankRate \in 0..100
            /\ 2 * st.jankRate * st.total <= 200 * st.janky + st.total
            /\ 200 * st.janky + st.total < 2 * (st.jankRate + 1) * st.total
            /\ (Durations(commits) = <<200, 50, 300>> /\ hz = 60
                    => st.janky = 2 /\ st.jankRate = 67 /\ st.worst.duration = 300)

\* a commit exactly at the budget beside a janky one: it is not counted
C3_Witness ==
    /\ stats # None
    /\ \E i \in 1..Len(commits) : commits[i].duration = budget
    /\ stats[1].janky >= 1
    /\ stats[1].janky < stats[1].total
    /\ stats[1].jankRate \in 1..99

\* e comes before f in the jank table's order
C4_Before(e, f) ==
    \/ e.c.duration > f.c.duration
    \/ (e.c.duration = f.c.duration /\ e.idx < f.idx)

\* C4: the jank table holds exactly the commits with duration > budget, by
\* duration descending, equal durations in their original order, cut to the
\* first 20, each entry with its 0-based position in the commit sequence.
C4_JankTable ==
    LET t == jankyCommits
        over == {i \in 1..Len(commits) : commits[i].duration > budget}
        listed == {t[k].idx + 1 : k \in 1..Len(t)}
    IN  /\ Len(t) = (IF Cardinality(over) < 20 THEN Cardinality(over) ELSE 20)
        /\ listed \subseteq over
        /\ Cardinality(listed) = Len(t)
        /\ \A k \in 1..Len(t) : t[k].c = commits[t[k].idx + 1]
        /\ \A k \in 1..(Len(t) - 1) : C4_Before(t[k], t[k + 1])
        /\ \A i \in over \ listed :
              C4_Before(t[Len(t)], [c |-> commits[i], idx |-> i - 1])
        /\ (Durations(commits) = <<200, 50, 300>> /\ hz = 60
                => [k \in 1..Len(t) |-> t[k].idx] = <<2, 0>>)

\* more than 20 janky commits with equal durations among them: the table is
\* cut to 20 and a janky commit is left out
C4_Witness ==
    /\ Cardinality({i \in 1..Len(commits) : commits[i].duration > budget}) > 20
    /\ Len(jankyCommits) = 20
    /\ \E k \in 1..19 : jankyCommits[k].c.duration = jankyCommits[k + 1].c.duration
    /\ jankyCommits[1].c.duration > jankyCommits[20].c.duration

\* the condition of suggestion rule k, as the rules are listed, on the
\* stats st
RuleHolds(st, k) ==
    CASE k = 1 -> st.jankRate > 20
      [] k = 2 -> st.p95 > budget
      [] k = 3 -> st.worst.passiveEffectDuration # None
                  /\ 2 * st.worst.passiveEffectDuration[1] > budget
      [] k = 4 -> 10 * st.avgNum > 6 * budget * st.avgDen
      [] k = 5 -> "(anonymous)" \in {st.topUpdaters[i][1] : i \in 1..Len(st.topUpdaters)}
      [] k = 6 -> sessionWorstFps # None /\ sessionWorstFps[1] < 50
      [] k = 7 -> sessionStallTotalMs > 200
      [] k = 8 -> st.culpritsByDuration # <<>>

RuleText ==
    <<"High jank rate", "P95 exceeds budget", "Large passive effects",
      "Average commit close to budget", "Anonymous updaters", "Low FPS observed",
      "JS thread stalls totaled", "Top culprit">>

Texts(items) == [i \in 1..Len(items) |-> items[i].text]

\* C5: the rule messages in the list are exactly those of the rules whose
\* conditions hold, in the order 1..8; each rule decides for itself.
C5_RulesInOrder ==
    LET sto == stats
    IN  sto # None =>
        LET st == sto[1]
            shown == SelectSeq(Texts(Suggestions(st, budget, metricsProp)),
                               LAMBDA t : t # "Looks healthy")
            held == SelectSeq(<<1, 2, 3, 4, 5, 6, 7, 8>>, LAMBDA k : RuleHolds(st, k))
        IN  shown = [i \in 1..Len(held) |-> RuleText[held[i]]]

\* rules 1, 2, 4, 6, 7 and 8 hold together while rule 3 does not
C5_Witness ==
    LET sto == stats
    IN  /\ sto # None
        /\ \A k \in {1, 2, 4, 6, 7, 8} : RuleHolds(sto[1], k)
        /\ ~RuleHolds(sto[1], 3)
        /\ Len(Suggestions(sto[1], budget, metricsProp)) = 6

\* C6: "Looks healthy" is in the list exactly when no rule's condition holds;
\* it is then the only item; the list is never empty.
C6_HealthyIffNoRule ==
    LET sto == stats
    IN  sto # None =>
        LET texts == Texts(Suggestions(sto[1], budget, metricsProp))
            healthy == \E i \in 1..Len(texts) : texts[i] = "Looks healthy"
        IN  /\ healthy <=> (\A k \in 1..8 : ~RuleHolds(sto[1], k))
            /\ healthy => Len(texts) = 1
            /\ Len(texts) >= 1

\* commits are loaded, no rule holds, and the list is the fallback alone
C6_Witness ==
    LET sto == stats
    IN  /\ sto # None
        /\ sto[1].total >= 2
        /\ Suggestions(sto[1], budget, metricsProp) = <<MsgHealthy>>

\* the updater entries of the commit sequence, as positions <<commit, updater>>
C7_Positions ==
    UNION {{<<i, j>> : j \in 1..Len(Coalesce(commits[i].updaters, <<>>))} :
              i \in 1..Len(commits)}

C7_NameAt(q) == Coalesce(commits[q[1]].updaters, <<>>)[q[2]].displayName

\* the names that are ranked: present, not empty, not "(anonymous)"
C7_Names ==
    {C7_NameAt(q)[1] : q \in {r \in C7_Positions :
        C7_NameAt(r) # None /\ C7_NameAt(r) \notin {Some(""), Some("(anonymous)")}}}

C7_PositionsOf(name) == {q \in C7_Positions : C7_NameAt(q) = Some(name)}

C7_Earlier(q, r) == q[1] < r[1] \/ (q[1] = r[1] /\ q[2] < r[2])

C7_First(name) ==
    CHOOSE q \in C7_PositionsOf(name) :
        \A r \in C7_PositionsOf(name) : q = r \/ C7_Earlier(q, r)

RECURSIVE C7_DurationSum(_)
C7_DurationSum(Q) ==
    IF Q = {} THEN 0
    ELSE LET q == CHOOSE r \in Q : TRUE
         IN  commits[q[1]].duration + C7_DurationSum(Q \ {q})

\* name a is ranked before name b, by the given value
C7_Before(a, b, Value(_)) ==
    \/ Value(a) > Value(b)
    \/ (Value(a) = Value(b) /\ C7_Earlier(C7_First(a), C7_First(b)))

C7_IsRanking(r, Value(_)) ==
    LET shown == {r[k][1] : k \in 1..Len(r)}
    IN  /\ Len(r) = (IF Cardinality(C7_Names) < 8 THEN Cardinality(C7_Names) ELSE 8)
        /\ shown \subseteq C7_Names
        /\ Cardinality(shown) = Len(r)
        /\ \A k \in 1..Len(r) : r[k][2] = Value(r[k][1])
        /\ \A k \in 1..(Len(r) - 1) : C7_Before(r[k][1], r[k + 1][1], Value)
        /\ \A n \in C7_Names \ shown : C7_Before(r[Len(r)][1], n, Value)

C7_Count(name) == Cardinality(C7_PositionsOf(name))
C7_Weight(name) == C7_DurationSum(C7_PositionsOf(name))

\* C7: both rankings list the named updaters only (no missing, empty or
\* "(anonymous)" name), the one by number of updater entries, the other by
\* the summed duration of the commits of those entries; each by value
\* descending, equal values by first occurrence, at most 8 names.
C7_Rankings ==
    stats # None =>
        /\ C7_IsRanking(stats[1].topUpdaters, C7_Count)
        /\ C7_IsRanking(stats[1].culpritsByDuration, C7_Weight)
        /\ (profile = Some(FooDoc) => stats[1].topUpdaters = <<(<<"Foo", 2>>)>>)

\* more than 8 names, with equal counts among the 8 kept, and the two
\* rankings in different orders
C7_Witness ==
    /\ stats # None
    /\ Cardinality(C7_Names) > 8
    /\ Len(stats[1].topUpdaters) = 8
    /\ stats[1].topUpdaters[7][2] = stats[1].topUpdaters[8][2]
    /\ stats[1].topUpdaters[1][2] > stats[1].topUpdaters[8][2]

\* C8: the worst commit has the greatest duration, and among the commits of
\* that duration it is the first.
C8_WorstIsFirstMax ==
    stats # None =>
        LET m == Max({commits[i].duration : i \in 1..Len(commits)})
            first == Min({i \in 1..Len(commits) : commits[i].duration = m})
        IN  /\ WorstIdx(commits) = first
            /\ stats[1].worst = commits[first]

\* two different commits share the greatest duration: the earlier one wins
C8_Witness ==
    /\ stats # None
    /\ Len(commits) = 2
    /\ commits[1].duration = commits[2].duration
    /\ commits[1] # commits[2]
    /\ stats[1].worst = commits[1]

\* the k-th smallest duration (k from 1): fewer than k durations lie below
\* it and at least k do not exceed it
C9_Ranked(k) ==
    LET d == Durations(commits)
    IN  CHOOSE v \in {d[i] : i \in 1..Len(d)} :
            /\ Cardinality({i \in 1..Len(d) : d[i] < v}) < k
            /\ Cardinality({i \in 1..Len(d) : d[i] <= v}) >= k

\* C9: on the durations in ascending order s[0..n-1], the median is
\* s[(n-1)/2] for odd n and the mean of s[n/2-1] and s[n/2] for even n, and
\* p95 is s[floor(0.95*(n-1))]; so min <= median <= max and p95 <= max.
\* (median2 is twice the median; durations 1..10 ms give 5.5 ms and 9 ms.)
C9_MedianAndP95 ==
    stats # None =>
        LET n == Len(commits)
            all == {commits[i].duration : i \in 1..n}
            st == stats[1]
        IN  /\ st.median2 = (IF n % 2 = 1 THEN 2 * C9_Ranked((n - 1) \div 2 + 1)
                             ELSE C9_Ranked(n \div 2) + C9_Ranked(n \div 2 + 1))
            /\ st.p95 = C9_Ranked((95 * (n - 1)) \div 100 + 1)
            /\ 2 * Min(all) <= st.median2
            /\ st.median2 <= 2 * Max(all)
            /\ st.p95 <= Max(all)
            /\ (profile = Some(TenDoc) => st.median2 = 110 /\ st.p95 = 90)

\* the ten durations 1..10 ms are loaded: median 5.5 ms, p95 9 ms
C9_Witness ==
    /\ profile = Some(TenDoc)
    /\ stats # None
    /\ stats[1].median2 = 110
    /\ stats[1].p95 = 90
    /\ stats[1].p95 < stats[1].worst.duration

\* C10: once a capture session has been started, sessionWorstFps is the
\* least fps of the fps-tick samples received since the most recent start,
\* and null while none has been received since then.
C10_WorstFpsIsSessionMin ==
    sessionStarted =>
        sessionWorstFps = (IF sinceStart = {} THEN None ELSE Some(Min(sinceStart)))

\* two samples were received in the session, the lower one first
C10_Witness ==
    /\ sessionStarted
    /\ sinceStart = {45, 60}
    /\ fps = Some(60)
    /\ sessionWorstFps = Some(45)

\* the step in which the panel handles the fps-tick at the head of toPanel
TickStep ==
    /\ toPanel # <<>>
    /\ Head(toPanel).type = "fps-tick"
    /\ toPanel' = Tail(toPanel)

C12_ClearResetsEverything ==
    [][Clear =>
         /\ profile' = None
         /\ stats' = None
         /\ jankyCommits' = <<>>
         /\ isCapturing' = FALSE
         /\ sessionWorstFps' = None
         /\ sessionStallTotalMs' = 0]_vars

\* the panel's most recent stop has run its course: the bridge has handled
\* its stop-profiler and no export sent for it is still in flight
StopSettled ==
    /\ stopped
    /\ \A i \in 1..Len(toBridge) : toBridge[i].type # "stop-profiler"
    /\ Finals(toPanel) = staleFinals

\* C13: every stop of a capture session replaces the profile exactly once:
\* not zero times when neither the profilerStore nor the bridge supplies
\* data, not twice when both do.
C13_OneTerminalReplacement == StopSettled => terminalSets = 1

\* the profiling window of the loaded document, a missing time read as 0
WindowOf(doc) ==
    (IF doc.profilingEndTime = None THEN 0 ELSE doc.profilingEndTime[1])
    - (IF doc.profilingStartTime = None THEN 0 ELSE doc.profilingStartTime[1])

\* C14 as stated: with a positive window the commits-per-minute figure
\* equals commits / (end - start) * 60000 exactly.
C14_PerMinuteExact ==
    LET sto == stats
    IN  (sto # None /\ WindowOf(profile[1]) > 0) =>
            /\ sto[1].perMinute # None
            /\ sto[1].perMinute[1] * WindowOf(profile[1]) = 60000 * sto[1].total

\* C14: commits-per-minute comes from profilingStartTime and profilingEndTime
\* only; it is undefined when end - start is zero or negative, and otherwise
\* it is commits / (end - start) * 60000 rounded to the nearest integer, a
\* finite number.
C14_PerMinuteRounded ==
    LET sto == stats
    IN  sto # None =>
          LET w == WindowOf(profile[1])
              n == sto[1].total
              pm == sto[1].perMinute
          IN  /\ w <= 0 => pm = None
              /\ w > 0 =>
                   /\ pm # None
                   /\ pm[1] \in Nat
                   /\ 2 * pm[1] * w - w <= 2 * 60000 * n
                   /\ 2 * 60000 * n < 2 * pm[1] * w + w

\* one commit in a window of 7000 ms: 8.57 per minute, shown as 9
C14_Witness ==
    /\ stats # None
    /\ profile[1].profilingStartTime = Some(1000)
    /\ profile[1].profilingEndTime = Some(8000)
    /\ stats[1].total = 1
    /\ stats[1].perMinute = Some(9)

\* the sample whose delivery was the last thing to change the session
\* accumulators, if any: none right after a capture start or a Clear
LastSample ==
    IF fps # None /\ stallsMs # None /\ sinceStart # {}
    THEN Some([fps |-> fps[1], jsStallsMs |-> stallsMs[1]])
    ELSE None

\* the fps-tick at the head of toPanel repeats the sample delivered last
Redelivery ==
    /\ TickStep
    /\ LastSample = Some([fps |-> Head(toPanel).fps,
                          jsStallsMs |-> Head(toPanel).jsStallsMs])

\* C16 as stated: delivering the same fps-tick sample a second time leaves
\* (worstFps, stallTotalMs) as they were after the first delivery.
C16_RedeliveryChangesNothing ==
    [][Redelivery => UNCHANGED <<sessionWorstFps, sessionStallTotalMs>>]_vars

\* C16: delivering the same fps-tick sample a second time leaves worstFps as
\* it was after the first delivery and adds the sample's jsStallsMs to
\* stallTotalMs once more.
C16_RedeliveryAddsStallAgain ==
    [][Redelivery =>
         /\ sessionWorstFps' = sessionWorstFps
         /\ sessionStallTotalMs' = sessionStallTotalMs + Head(toPanel).jsStallsMs]_vars

\* the sample (45, 300) has been delivered twice in one session
C16_Witness ==
    /\ sinceStart = {45}
    /\ sessionWorstFps = Some(45)
    /\ sessionStallTotalMs = 600

\* the updater entries that count under the name "(anonymous)": those with a
\* missing or empty displayName, and those literally so named
C17_AnonCount ==
    Cardinality({q \in C7_Positions :
        C7_NameAt(q) = None \/ C7_NameAt(q) \in {Some(""), Some("(anonymous)")}})

\* "(anonymous)" is among the eight most frequent updater names: fewer than
\* eight names occur at least as often
C17_AnonAmongTop ==
    /\ C17_AnonCount > 0
    /\ Cardinality({n \in C7_Names : C7_Count(n) >= C17_AnonCount}) < 8

\* C17: for a profile where "(anonymous)" is among the eight most frequent
\* updater names, the suggestions contain the "Anonymous updaters" message.
C17_AnonymousRuleFires ==
    (suggestions # None /\ C17_AnonAmongTop) =>
        \E k \in 1..Len(suggestions[1]) : suggestions[1][k].text = "Anonymous updaters"

\* C18: the jank table has min(janky, 20) entries, and when there is a janky
\* commit its first entry is the worst commit: the same duration, and the
\* 0-based position of the first commit of greatest duration.
C18_TableAgreesWithStats ==
    LET sto == stats
        t == jankyCommits
        janky == IF sto = None THEN 0 ELSE sto[1].janky
    IN  /\ Len(t) = Min({janky, 20})
        /\ janky > 0 =>
             LET m == Max({commits[i].duration : i \in 1..Len(commits)})
                 first == Min({i \in 1..Len(commits) : commits[i].duration = m})
             IN  /\ t[1].c.duration = sto[1].worst.duration
                 /\ t[1].c.duration = m
                 /\ t[1].idx = first - 1

\* more than 20 janky commits, the greatest duration shared by several of
\* them and first met after the first commit
C18_Witness ==
    /\ stats # None
    /\ stats[1].janky > 20
    /\ Len(jankyCommits) = 20
    /\ jankyCommits[1].idx > 0
    /\ jankyCommits[2].c.duration = jankyCommits[1].c.duration
    /\ stats[1].worst = commits[jankyCommits[1].idx + 1]

\* C19: an fps-tick that arrives while the panel is not capturing leaves
\* both session accumulators unchanged.
C19_TicksIgnoredWhenIdle ==
    [][(TickStep /\ ~isCapturing) =>
         UNCHANGED <<sessionWorstFps, sessionStallTotalMs>>]_vars

\* C20: in the bridge at most one export poller, one frame-tick timeout
\* chain and one fps emitter is active, and none while capturing is false; a
\* start-profiler handled while capturing creates no timer, and an fps-tick
\* is sent only while capturing.
C20_TimersWithCapture ==
    /\ [](/\ pollers <= 1 /\ rafChains <= 1 /\ emitters <= 1
          /\ ~capturing => (pollers = 0 /\ rafChains = 0 /\ emitters = 0))
    /\ [][/\ (BridgeStart /\ capturing) => UNCHANGED <<pollers, rafChains, emitters>>
          /\ (sent' > sent /\ toPanel'[Len(toPanel')].type = "fps-tick") => capturing]_vars

\* a second capture is running, with one timer of each kind, after a
\* start-profiler was ignored
C20_Witness ==
    /\ startIgnored
    /\ capturing
    /\ hooks = 2
    /\ pollers = 1 /\ rafChains = 1 /\ emitters = 1

\* C21: one React commit seen by the bridge produces at most one
\* profiler-export, exactly one when it is seen while capturing and yields
\* profiler data, and none while not capturing, however many captures were
\* started before.
C21_OneExportPerCommit ==
    [][ReactCommit =>
         /\ sent' \in {sent, sent + 1}
         /\ ~capturing => sent' = sent]_vars

\* C22: the final export the stop-profiler handler takes from
\* lastHookPayload was stored during the capture being stopped, never during
\* an earlier one, whether that one ended by stop-profiler or reset-profiler.
C22_FinalExportIsOfThisSession ==
    [][(BridgeStop /\ usedHook /\ lastHookPayload # None) => hookFresh]_vars

\* C23: once every message the panel has sent is delivered, the bridge's
\* capturing flag equals the panel's isCapturing, after any sequence of
\* toggleCapture and Clear.
C23_CaptureStateAgrees == toBridge = <<>> => capturing = isCapturing

\* a capture that Clear ended while it ran (its hook payload is still held)
\* has been followed by a toggleCapture, and both sides are capturing
C23_Witness ==
    /\ toBridge = <<>>
    /\ isCapturing
    /\ capturing
    /\ lastHookPayload # None
    /\ ~hookFresh

====
